---- MODULE Spec2Model ----
(***************************************************************************)
(* Model of crates/optimism/rpc/src/eth/pending_block.rs: the OP pending   *)
(* block provider (impl LoadPendingBlock for OpEthApi).                    *)
(*                                                                         *)
(*   Spec       the build path: resolve a parent, next_env_attributes,     *)
(*              external execution, assemble_block, install in the slot.   *)
(*   SpecLocal  the fallback path: local_pending_block reading a chain     *)
(*              store that other threads advance between its reads.        *)
(*                                                                         *)
(* Option<T> is a sequence: None is <<>>, Some(x) is <<x>>.                *)
(* u64 is scaled to U64Bits bits (TLC integers are 32 bit); every          *)
(* boundary value is written relative to U64_MAX.                          *)
(***************************************************************************)
EXTENDS Integers, Sequences, FiniteSets, TLC

\* ------------------------------------------------------------------ bounds
U64Bits == 11

MaxTxs == 2

MaxBlocks == 3

\* --------------------------------------------------------------- constants
U64_MAX == 2 ^ U64Bits - 1

SLOT_DURATION == 12

B256_ZERO == "0x00"

U256_ZERO == 0

EMPTY_OMMER_ROOT_HASH == "EMPTY_OMMER_ROOT_HASH"

EMPTY_WITHDRAWALS == "EMPTY_WITHDRAWALS"

EMPTY_REQUESTS_HASH == "EMPTY_REQUESTS_HASH"

BEACON_NONCE == "BEACON_NONCE"

EMPTY_BYTES == <<>>

\* ------------------------------------------------------------------ Option
None == <<>>

Some(x) == <<x>>

IsSome(o) == o /= <<>>

unwrap_or(o, d) == IF o = <<>> THEN d ELSE o[1]

then_some(b, x) == IF b THEN <<x>> ELSE <<>>

RECURSIVE SeqSum(_)
SeqSum(s) == IF s = <<>> THEN 0 ELSE Head(s) + SeqSum(Tail(s))

SeqsUpTo(S, n) == UNION {[1..k -> S] : k \in 0..n}

\* ------------------------------------------------------------ u64 arithmetic
wrapping_add(a, b) == (a + b) % (U64_MAX + 1)

\* Mutant: the addition wraps instead of saturating.
saturating_add_wraps(a, b) == wrapping_add(a, b)

saturating_add(a, b) == IF a + b > U64_MAX THEN U64_MAX ELSE a + b

\* ------------------------------------------------------------ input domains
\* Parent timestamps: the spec's example (1000) and both sides of the point
\* where adding the slot duration leaves the u64 range.
ParentTimestamps ==
    {0, 1000, U64_MAX - SLOT_DURATION - 1, U64_MAX - SLOT_DURATION,
     U64_MAX - SLOT_DURATION + 1, U64_MAX}

ParentVariant(v) ==
    IF v = 1
    THEN [beneficiary |-> "0xAA", gas_limit |-> 30000000,
          parent_beacon_block_root |-> Some("0xBB"), extra_data |-> <<>>]
    ELSE [beneficiary |-> "0xCC", gas_limit |-> 15000000,
          parent_beacon_block_root |-> None, extra_data |-> <<171, 205>>]

SealedHeader(h, ts, v) ==
    [hash |-> h, number |-> 7, timestamp |-> ts,
     beneficiary |-> ParentVariant(v).beneficiary,
     gas_limit |-> ParentVariant(v).gas_limit,
     parent_beacon_block_root |-> ParentVariant(v).parent_beacon_block_root,
     extra_data |-> ParentVariant(v).extra_data]

ParentHeaders == {SealedHeader("0xP", ts, v) : ts \in ParentTimestamps, v \in 1..2}

NoParent == SealedHeader("0xGENESIS", 0, 1)

\* Values B256::random() can return.
RandomB256 == {"0xR1", "0xR2"}

\* Fork activation timestamps of the chain spec (None: never activated) and the
\* candidate timestamps on both sides of the activation boundary.
ForkTime == 1012

ForkTimes == {None, Some(ForkTime)}

CandidateTimestamps == {ForkTime - 1, ForkTime}

BlockEnvVariant(v) ==
    IF v = 1
    THEN [number |-> 8, beneficiary |-> "0xAA", gas_limit |-> 30000000,
          basefee |-> 7, blob_excess_gas |-> Some(0)]
    ELSE [number |-> 9, beneficiary |-> "0xEE", gas_limit |-> 20000000,
          basefee |-> 1000, blob_excess_gas |-> None]

BlockEnv(ts, randao, v) ==
    [number |-> BlockEnvVariant(v).number, timestamp |-> ts,
     beneficiary |-> BlockEnvVariant(v).beneficiary,
     gas_limit |-> BlockEnvVariant(v).gas_limit,
     basefee |-> BlockEnvVariant(v).basefee,
     prevrandao |-> randao,
     blob_excess_gas |-> BlockEnvVariant(v).blob_excess_gas]

BlockEnvs ==
    {BlockEnv(ts, r, v) : ts \in CandidateTimestamps,
                          r \in {None, Some("0xR1")}, v \in 1..2}

NoBlockEnv == BlockEnv(0, None, 1)

\* Per-transaction blob gas: no blob data, zero, small, and the u64 maximum.
BlobGasValues == {None, Some(0), Some(1), Some(U64_MAX)}

Recovered(bg) == [signer |-> "0xSIGNER", tx |-> [blob_gas_used |-> bg]]

TransactionLists ==
    {[i \in 1..Len(s) |-> Recovered(s[i])] : s \in SeqsUpTo(BlobGasValues, MaxTxs)}

ExecutionResults ==
    {[receipts |-> <<>>, gas_used |-> 0, state_root |-> "0xS0"],
     [receipts |-> <<[logs |-> {1, 2}], [logs |-> {2, 3}]>>, gas_used |-> 42000,
      state_root |-> "0xS1"]}

\* ------------------------------------------------------------------- state
VARIABLES
    chain_spec,     \* fork activation timestamps of provider().chain_spec()
    build_pc,       \* position of the build path
    parent,         \* the parent header borrowed by the build path
    attrs,          \* Option<Result>: what next_env_attributes returned last
    prev_attrs,     \* Option<Result>: what the call before that returned
    block_env,      \* BlockEnv handed to assemble_block
    result,         \* BlockExecutionResult (with the state root)
    transactions,   \* Vec<Recovered<Tx>> handed to assemble_block
    assembled,      \* outcome of assemble_block
    pending_block,  \* the single-slot cache behind pending_block()
    latest,         \* store: Option<hash> of the latest header
    blocks,         \* store: hash -> Option<block>
    receipts,       \* store: hash -> Option<receipts>
    lpb_pc,         \* position of local_pending_block
    block_id,       \* local_pending_block: latest.hash().into()
    block,          \* local_pending_block: the block read
    seen,           \* what each provider read of the call returned
    lpb_result      \* Option<Result> returned by local_pending_block

build_vars ==
    <<chain_spec, build_pc, parent, attrs, prev_attrs, block_env, result,
      transactions, assembled>>

store_vars == <<latest, blocks, receipts>>

lpb_vars == <<lpb_pc, block_id, block, seen, lpb_result>>

vars == <<build_vars, pending_block, store_vars, lpb_vars>>

\* ------------------------------------------------------- chain configuration
is_active_at_timestamp(fork_time, timestamp) ==
    IsSome(fork_time) /\ timestamp >= fork_time[1]

is_shanghai_active_at_timestamp(cs, timestamp) ==
    is_active_at_timestamp(cs.shanghai, timestamp)

is_cancun_active_at_timestamp(cs, timestamp) ==
    is_active_at_timestamp(cs.cancun, timestamp)

is_prague_active_at_timestamp(cs, timestamp) ==
    is_active_at_timestamp(cs.prague, timestamp)

ChainSpecs == [shanghai : ForkTimes, cancun : ForkTimes, prague : ForkTimes]

\* ------------------------------------------------------ next_env_attributes
\* rnd is the value B256::random() returns inside the call.
\* Mutant: extra data is left at its default instead of carried forward.
next_env_attributes_default_extra(p, rnd) ==
    [ok |-> TRUE,
     value |-> [timestamp |-> saturating_add(p.timestamp, SLOT_DURATION),
                suggested_fee_recipient |-> p.beneficiary,
                prev_randao |-> rnd,
                gas_limit |-> p.gas_limit,
                parent_beacon_block_root |-> p.parent_beacon_block_root,
                extra_data |-> EMPTY_BYTES]]

next_env_attributes(p, rnd) ==
    [ok |-> TRUE,
     value |-> [timestamp |-> saturating_add(p.timestamp, SLOT_DURATION),
                suggested_fee_recipient |-> p.beneficiary,
                prev_randao |-> rnd,
                gas_limit |-> p.gas_limit,
                parent_beacon_block_root |-> p.parent_beacon_block_root,
                extra_data |-> p.extra_data]]

\* ----------------------------------------------------------- assemble_block
\* Merkle roots and the bloom filter are collision-free digests of their input.
calculate_transaction_root(txs) == <<"transactions_root", txs>>

calculate_receipt_root_no_memo_optimism(rs, cs, timestamp) ==
    <<"receipts_root", rs, timestamp>>

logs_bloom(rs) == UNION {rs[i].logs : i \in 1..Len(rs)}

tx_blob_gas_used(tx) == unwrap_or(tx.tx.blob_gas_used, 0)

\* Iterator::sum::<u64>(): a left fold with +. With overflow checks compiled in
\* the addition panics when it leaves the u64 range, without them it wraps.
RECURSIVE sum_u64(_, _, _)
sum_u64(s, acc, overflow_checks) ==
    IF s = <<>> THEN [panic |-> FALSE, value |-> acc]
    ELSE IF acc + Head(s) > U64_MAX /\ overflow_checks
         THEN [panic |-> TRUE, value |-> 0]
         ELSE sum_u64(Tail(s), wrapping_add(acc, Head(s)), overflow_checks)

assemble_header(cs, env, res, p, state_root, txs, blob_gas) ==
    LET timestamp == env.timestamp
        is_cancun == is_cancun_active_at_timestamp(cs, timestamp)
        is_prague == is_prague_active_at_timestamp(cs, timestamp)
        is_shanghai == is_shanghai_active_at_timestamp(cs, timestamp)
    IN  [parent_hash |-> p.hash,
         ommers_hash |-> EMPTY_OMMER_ROOT_HASH,
         beneficiary |-> env.beneficiary,
         state_root |-> state_root,
         transactions_root |-> calculate_transaction_root(txs),
         receipts_root |->
             calculate_receipt_root_no_memo_optimism(res.receipts, cs, timestamp),
         withdrawals_root |-> then_some(is_shanghai, EMPTY_WITHDRAWALS),
         logs_bloom |-> logs_bloom(res.receipts),
         timestamp |-> timestamp,
         mix_hash |-> unwrap_or(env.prevrandao, B256_ZERO),
         nonce |-> BEACON_NONCE,
         base_fee_per_gas |-> Some(env.basefee),
         number |-> env.number,
         gas_limit |-> env.gas_limit,
         difficulty |-> U256_ZERO,
         gas_used |-> res.gas_used,
         blob_gas_used |-> then_some(is_cancun, blob_gas),
         excess_blob_gas |-> env.blob_excess_gas,
         extra_data |-> EMPTY_BYTES,
         parent_beacon_block_root |-> then_some(is_cancun, B256_ZERO),
         requests_hash |-> then_some(is_prague, EMPTY_REQUESTS_HASH)]

into_tx(rtx) == rtx.tx

\* The blob gas closure runs only when Cancun is active (bool::then is lazy).
blob_gas_used_sum(cs, env, txs, overflow_checks) ==
    IF is_cancun_active_at_timestamp(cs, env.timestamp)
    THEN sum_u64([i \in 1..Len(txs) |-> tx_blob_gas_used(txs[i])], 0,
                 overflow_checks)
    ELSE [panic |-> FALSE, value |-> 0]

seal_block(header, txs) ==
    [header |-> header,
     body |-> [transactions |-> [i \in 1..Len(txs) |-> into_tx(txs[i])],
               ommers |-> <<>>,
               withdrawals |-> None]]

Panicked == [panic |-> TRUE, block |-> None]

Returned(b) == [panic |-> FALSE, block |-> Some(b)]

NotAssembled == [panic |-> FALSE, block |-> None]

\* Mutant: the Shanghai gate is evaluated at the parent's timestamp.
assemble_block_parent_gate(cs, env, res, p, state_root, txs, overflow_checks) ==
    LET blob == blob_gas_used_sum(cs, env, txs, overflow_checks)
        header == assemble_header(cs, env, res, p, state_root, txs, blob.value)
        gate == is_shanghai_active_at_timestamp(cs, p.timestamp)
    IN  IF blob.panic THEN Panicked
        ELSE Returned(seal_block(
                 [header EXCEPT !.withdrawals_root =
                                    then_some(gate, EMPTY_WITHDRAWALS)], txs))

\* Mutant: the requests hash follows the Cancun gate.
assemble_block_requests_on_cancun(cs, env, res, p, state_root, txs, overflow_checks) ==
    LET blob == blob_gas_used_sum(cs, env, txs, overflow_checks)
        header == assemble_header(cs, env, res, p, state_root, txs, blob.value)
        gate == is_cancun_active_at_timestamp(cs, env.timestamp)
    IN  IF blob.panic THEN Panicked
        ELSE Returned(seal_block(
                 [header EXCEPT !.requests_hash =
                                    then_some(gate, EMPTY_REQUESTS_HASH)], txs))

\* Mutant: the beneficiary is copied from the parent.
assemble_block_parent_beneficiary(cs, env, res, p, state_root, txs, overflow_checks) ==
    LET blob == blob_gas_used_sum(cs, env, txs, overflow_checks)
        header == assemble_header(cs, env, res, p, state_root, txs, blob.value)
    IN  IF blob.panic THEN Panicked
        ELSE Returned(seal_block(
                 [header EXCEPT !.beneficiary = p.beneficiary], txs))

\* Mutant: extra data is carried over from the parent.
assemble_block_parent_extra(cs, env, res, p, state_root, txs, overflow_checks) ==
    LET blob == blob_gas_used_sum(cs, env, txs, overflow_checks)
        header == assemble_header(cs, env, res, p, state_root, txs, blob.value)
    IN  IF blob.panic THEN Panicked
        ELSE Returned(seal_block(
                 [header EXCEPT !.extra_data = p.extra_data], txs))

assemble_block(cs, env, res, p, state_root, txs, overflow_checks) ==
    LET blob == blob_gas_used_sum(cs, env, txs, overflow_checks)
        header == assemble_header(cs, env, res, p, state_root, txs, blob.value)
    IN  IF blob.panic THEN Panicked ELSE Returned(seal_block(header, txs))

NoResult == [receipts |-> <<>>, gas_used |-> 0, state_root |-> "0xS0"]

\* ------------------------------------------------------------- pending slot
PendingBlock(b, rs) == [block |-> b, receipts |-> rs]

\* *lock = Some(PendingBlock::new(..)) under the slot's mutex.
InstallPending(pb) == pending_block' = Some(pb)

\* --------------------------------------------------------------- build path
ResolveParent ==
    /\ build_pc = "idle"
    /\ \E p \in ParentHeaders : parent' = p
    /\ build_pc' = "resolved"
    /\ UNCHANGED <<chain_spec, attrs, prev_attrs, block_env, result,
                   transactions, assembled, pending_block, store_vars, lpb_vars>>

\* next_env_attributes(&parent); the caller may derive again for the same parent.
NextEnvAttributes ==
    /\ build_pc \in {"resolved", "derived"}
    /\ \E rnd \in RandomB256 : attrs' = Some(next_env_attributes(parent, rnd))
    /\ prev_attrs' = attrs
    /\ build_pc' = "derived"
    /\ UNCHANGED <<chain_spec, parent, block_env, result, transactions,
                   assembled, pending_block, store_vars, lpb_vars>>

\* The execution engine returns an environment, a result and the included
\* transactions.
Execute ==
    /\ build_pc = "derived"
    /\ \E env \in BlockEnvs, res \in ExecutionResults, txs \in TransactionLists :
          /\ block_env' = env
          /\ result' = res
          /\ transactions' = txs
    /\ prev_attrs' = None
    /\ build_pc' = "executed"
    /\ UNCHANGED <<chain_spec, parent, attrs, assembled, pending_block,
                   store_vars, lpb_vars>>

AssembleBlock ==
    /\ build_pc = "executed"
    /\ \E overflow_checks \in BOOLEAN :
          assembled' = assemble_block(chain_spec, block_env, result, parent,
                                      result.state_root, transactions,
                                      overflow_checks)
    /\ build_pc' = "assembled"
    /\ UNCHANGED <<chain_spec, parent, attrs, prev_attrs, block_env, result,
                   transactions, pending_block, store_vars, lpb_vars>>

InstallAssembled ==
    /\ build_pc = "assembled"
    /\ ~assembled.panic
    /\ InstallPending(PendingBlock(assembled.block[1], result.receipts))
    /\ build_pc' = "installed"
    /\ UNCHANGED <<chain_spec, parent, attrs, prev_attrs, block_env, result,
                   transactions, assembled, store_vars, lpb_vars>>

\* A panic in assemble_block unwinds the request; nothing is installed.
BuildPanicked ==
    /\ build_pc = "assembled"
    /\ assembled.panic
    /\ build_pc' = "panicked"
    /\ UNCHANGED <<chain_spec, parent, attrs, prev_attrs, block_env, result,
                   transactions, assembled, pending_block, store_vars, lpb_vars>>

\* ------------------------------------------------------------- chain store
Hashes == 1..MaxBlocks

StoredHeader(h) == [hash |-> h, number |-> h]

StoredBlock(h) == [hash |-> h, number |-> h, senders |-> <<"0xSIGNER">>]

StoredReceipts(h) == [of_block |-> h]

NextHash == IF latest = None THEN 1 ELSE latest[1].hash + 1

\* Another thread commits the next block; its body and receipts may be missing.
CommitBlock ==
    /\ NextHash <= MaxBlocks
    /\ \E with_body \in BOOLEAN, with_receipts \in BOOLEAN :
          /\ latest' = Some(StoredHeader(NextHash))
          /\ blocks' = [blocks EXCEPT
                           ![NextHash] = then_some(with_body, StoredBlock(NextHash))]
          /\ receipts' = [receipts EXCEPT
                           ![NextHash] = then_some(with_receipts,
                                                   StoredReceipts(NextHash))]
    /\ UNCHANGED <<build_vars, pending_block, lpb_vars>>

PruneReceipts ==
    /\ \E h \in Hashes :
          /\ receipts[h] /= None
          /\ receipts' = [receipts EXCEPT ![h] = None]
    /\ UNCHANGED <<build_vars, pending_block, latest, blocks, lpb_vars>>

\* Result<Option<T>, ProviderError> of a provider read.
ProviderOk(v) == [ok |-> TRUE, value |-> v]

ProviderErr == [ok |-> FALSE, value |-> None]

latest_header == {ProviderOk(latest), ProviderErr}

block_with_senders(id) == {ProviderOk(blocks[id]), ProviderErr}

receipts_by_block(id) == {ProviderOk(receipts[id]), ProviderErr}

\* ------------------------------------------------------ local_pending_block
BlockNumberOrTag_Latest == [tag |-> "Latest", hash |-> 0]

BlockHash(h) == [tag |-> "Hash", hash |-> h]

NoId == [tag |-> "None", hash |-> 0]

HeaderNotFound(id) == [kind |-> "HeaderNotFound", id |-> id]

ReceiptsNotFound(id) == [kind |-> "ReceiptsNotFound", id |-> id]

ProviderError == [kind |-> "ProviderError", id |-> NoId]

NoError == [kind |-> "None", id |-> NoId]

Err(e) == [ok |-> FALSE, err |-> e, value |-> None]

Ok(v) == [ok |-> TRUE, err |-> NoError, value |-> v]

NotRead == None

NothingSeen == [latest |-> NotRead, block |-> NotRead, receipts |-> NotRead]

\* .map_err(from_eth_err)?.ok_or(HeaderNotFound(Latest))?
latest_or_err(r) ==
    IF ~r.ok THEN Err(ProviderError)
    ELSE IF r.value = None THEN Err(HeaderNotFound(BlockNumberOrTag_Latest))
    ELSE Ok(r.value)

\* Mutant: a missing body is reported against the Latest tag.
block_or_err_latest(r, id) ==
    IF ~r.ok THEN Err(ProviderError)
    ELSE IF r.value = None THEN Err(HeaderNotFound(BlockNumberOrTag_Latest))
    ELSE Ok(r.value)

\* .map_err(from_eth_err)?.ok_or(HeaderNotFound(block_id))?
block_or_err(r, id) ==
    IF ~r.ok THEN Err(ProviderError)
    ELSE IF r.value = None THEN Err(HeaderNotFound(BlockHash(id)))
    ELSE Ok(r.value)

\* .map_err(from_eth_err)?.ok_or(ReceiptsNotFound(block_id))?
receipts_or_err(r, id) ==
    IF ~r.ok THEN Err(ProviderError)
    ELSE IF r.value = None THEN Err(ReceiptsNotFound(BlockHash(id)))
    ELSE Ok(r.value)

LocalPendingBlock_latest ==
    /\ lpb_pc = "latest_header"
    /\ \E r \in latest_header :
          /\ seen' = [seen EXCEPT !.latest = Some(r)]
          /\ IF latest_or_err(r).ok
             THEN /\ block_id' = Some(latest_or_err(r).value[1].hash)
                  /\ lpb_pc' = "block_with_senders"
                  /\ UNCHANGED lpb_result
             ELSE /\ lpb_result' = Some(latest_or_err(r))
                  /\ lpb_pc' = "done"
                  /\ UNCHANGED block_id
    /\ UNCHANGED <<build_vars, pending_block, store_vars, block>>

LocalPendingBlock_block ==
    /\ lpb_pc = "block_with_senders"
    /\ \E r \in block_with_senders(block_id[1]) :
          /\ seen' = [seen EXCEPT !.block = Some(r)]
          /\ IF block_or_err(r, block_id[1]).ok
             THEN /\ block' = block_or_err(r, block_id[1]).value
                  /\ lpb_pc' = "receipts_by_block"
                  /\ UNCHANGED lpb_result
             ELSE /\ lpb_result' = Some(block_or_err(r, block_id[1]))
                  /\ lpb_pc' = "done"
                  /\ UNCHANGED block
    /\ UNCHANGED <<build_vars, pending_block, store_vars, block_id>>

\* Mutant: the receipts are read for whatever block is latest at that moment.
LocalPendingBlock_receipts_of_latest ==
    /\ lpb_pc = "receipts_by_block"
    /\ \E r \in receipts_by_block(latest[1].hash) :
          /\ seen' = [seen EXCEPT !.receipts = Some(r)]
          /\ IF receipts_or_err(r, block_id[1]).ok
             THEN lpb_result' =
                      Some(Ok(Some([block |-> block[1],
                                    receipts |->
                                        receipts_or_err(r, block_id[1]).value[1]])))
             ELSE lpb_result' = Some(receipts_or_err(r, block_id[1]))
    /\ lpb_pc' = "done"
    /\ UNCHANGED <<build_vars, pending_block, store_vars, block_id, block>>

LocalPendingBlock_receipts ==
    /\ lpb_pc = "receipts_by_block"
    /\ \E r \in receipts_by_block(block_id[1]) :
          /\ seen' = [seen EXCEPT !.receipts = Some(r)]
          /\ IF receipts_or_err(r, block_id[1]).ok
             THEN lpb_result' =
                      Some(Ok(Some([block |-> block[1],
                                    receipts |->
                                        receipts_or_err(r, block_id[1]).value[1]])))
             ELSE lpb_result' = Some(receipts_or_err(r, block_id[1]))
    /\ lpb_pc' = "done"
    /\ UNCHANGED <<build_vars, pending_block, store_vars, block_id, block>>

\* The caller takes the result; the next request starts a new call.
LocalPendingBlock_call ==
    /\ lpb_pc = "done"
    /\ lpb_pc' = "latest_header"
    /\ block_id' = None
    /\ block' = None
    /\ seen' = NothingSeen
    /\ lpb_result' = None
    /\ UNCHANGED <<build_vars, pending_block, store_vars>>

\* A concurrent request installs the candidate it assembled.
ConcurrentCandidates ==
    {PendingBlock(
         assemble_block(chain_spec, BlockEnv(ForkTime, Some("0xR1"), v), NoResult,
                        NoParent, NoResult.state_root, <<>>, FALSE).block[1],
         NoResult.receipts) : v \in 1..2}

ConcurrentInstall ==
    /\ \E pb \in ConcurrentCandidates :
          /\ pending_block /= Some(pb)
          /\ InstallPending(pb)
    /\ UNCHANGED <<build_vars, store_vars, lpb_vars>>

\* ----------------------------------------------------------- specifications
Init ==
    /\ chain_spec \in ChainSpecs
    /\ build_pc = "idle"
    /\ parent = NoParent
    /\ attrs = None
    /\ prev_attrs = None
    /\ block_env = NoBlockEnv
    /\ result = NoResult
    /\ transactions = <<>>
    /\ assembled = NotAssembled
    /\ pending_block = None
    /\ latest = None
    /\ blocks = [h \in Hashes |-> None]
    /\ receipts = [h \in Hashes |-> None]
    /\ lpb_pc = "latest_header"
    /\ block_id = None
    /\ block = None
    /\ seen = NothingSeen
    /\ lpb_result = None

Next ==
    \/ ResolveParent
    \/ NextEnvAttributes
    \/ Execute
    \/ AssembleBlock
    \/ InstallAssembled
    \/ BuildPanicked

Spec == Init /\ [][Next]_vars

NextLocal ==
    \/ CommitBlock
    \/ PruneReceipts
    \/ LocalPendingBlock_latest
    \/ LocalPendingBlock_block
    \/ LocalPendingBlock_receipts
    \/ LocalPendingBlock_call
    \/ ConcurrentInstall

SpecLocal == Init /\ [][NextLocal]_vars

\* ------------------------------------------------------------------ claims
HasBlock == assembled.block /= None

Header == assembled.block[1].header

Body == assembled.block[1].body

GateOpen(fork_time, timestamp) == fork_time /= None /\ fork_time[1] <= timestamp

ReadMissing(o) == o = Some(ProviderOk(None))

ReadFound(o) == o /= NotRead /\ o[1].ok /\ o[1].value /= None

SeenHash == seen.latest[1].value[1].hash

\* C1: local_pending_block fails HeaderNotFound(Latest) when the latest header
\* is absent, HeaderNotFound(hash) when the header exists but its body is
\* missing, ReceiptsNotFound(hash) when the block exists but its receipts do
\* not; no failure returns a pair; the reads happen header, body, receipts, and
\* a later read is made only after the earlier one found its value.
C1_FailureOrder ==
    /\ seen.block /= NotRead => ReadFound(seen.latest)
    /\ seen.receipts /= NotRead => ReadFound(seen.block)
    /\ lpb_pc = "done" =>
          /\ lpb_result /= None
          /\ ReadMissing(seen.latest) =>
                lpb_result[1] = Err(HeaderNotFound(BlockNumberOrTag_Latest))
          /\ ReadFound(seen.latest) /\ ReadMissing(seen.block) =>
                lpb_result[1] = Err(HeaderNotFound(BlockHash(SeenHash)))
          /\ ReadFound(seen.block) /\ ReadMissing(seen.receipts) =>
                lpb_result[1] = Err(ReceiptsNotFound(BlockHash(SeenHash)))
          /\ ~lpb_result[1].ok => lpb_result[1].value = None
          /\ lpb_result[1].ok => ReadFound(seen.receipts)

C1_Witness ==
    /\ lpb_pc = "done"
    /\ ReadFound(seen.latest)
    /\ ReadMissing(seen.block)
    /\ SeenHash = 2
    /\ lpb_result[1].err = HeaderNotFound(BlockHash(2))

\* C2: the derived timestamp is the parent's timestamp plus 12, or the u64
\* maximum when that sum leaves the u64 range, and the call returns Ok.
C2_SaturatingTimestamp ==
    attrs /= None =>
        /\ attrs[1].ok
        /\ parent.timestamp + 12 <= U64_MAX =>
              attrs[1].value.timestamp = parent.timestamp + 12
        /\ parent.timestamp > U64_MAX - 12 =>
              attrs[1].value.timestamp = U64_MAX

C2_Witness ==
    /\ attrs /= None
    /\ parent.timestamp = U64_MAX - 11
    /\ attrs[1].value.timestamp = U64_MAX

\* C3: the derived environment's gas limit, parent beacon block root and extra
\* data equal the parent's, its suggested fee recipient is the parent's
\* beneficiary (parent timestamp 1000, gas limit 30000000 gives 1012 and
\* 30000000), and a call leaves the parent header as it was.
C3_CarriedForward ==
    /\ [](attrs /= None =>
            /\ attrs[1].value.gas_limit = parent.gas_limit
            /\ attrs[1].value.parent_beacon_block_root =
                   parent.parent_beacon_block_root
            /\ attrs[1].value.extra_data = parent.extra_data
            /\ attrs[1].value.suggested_fee_recipient = parent.beneficiary
            /\ (parent.timestamp = 1000 /\ parent.gas_limit = 30000000 =>
                    /\ attrs[1].value.timestamp = 1012
                    /\ attrs[1].value.gas_limit = 30000000))
    /\ [][attrs' /= attrs => parent' = parent]_vars

C3_Witness ==
    /\ attrs /= None
    /\ parent.timestamp = 1000
    /\ parent.extra_data /= <<>>
    /\ attrs[1].value.extra_data = parent.extra_data
    /\ attrs[1].value.timestamp = 1012

\* C4: the assembled header has a withdrawals root exactly when Shanghai is
\* active at the environment's timestamp, and the body never has a withdrawals
\* list.
C4_WithdrawalsGate ==
    HasBlock =>
        /\ (Header.withdrawals_root /= None) =
               GateOpen(chain_spec.shanghai, block_env.timestamp)
        /\ Header.withdrawals_root \in {None, Some(EMPTY_WITHDRAWALS)}
        /\ Body.withdrawals = None

C4_Witness ==
    /\ HasBlock
    /\ chain_spec.shanghai = Some(block_env.timestamp)
    /\ parent.timestamp < block_env.timestamp
    /\ Header.withdrawals_root = Some(EMPTY_WITHDRAWALS)
    /\ Body.withdrawals = None

\* C5: parent beacon block root and blob gas used are present exactly when
\* Cancun is active at the environment's timestamp, requests hash exactly when
\* Prague is, whatever the other gates answer.
C5_CancunPragueGates ==
    HasBlock =>
        /\ (Header.parent_beacon_block_root /= None) =
               GateOpen(chain_spec.cancun, block_env.timestamp)
        /\ (Header.blob_gas_used /= None) =
               GateOpen(chain_spec.cancun, block_env.timestamp)
        /\ (Header.requests_hash /= None) =
               GateOpen(chain_spec.prague, block_env.timestamp)

C5_Witness ==
    /\ HasBlock
    /\ GateOpen(chain_spec.cancun, block_env.timestamp)
    /\ ~GateOpen(chain_spec.prague, block_env.timestamp)
    /\ ~GateOpen(chain_spec.shanghai, block_env.timestamp)
    /\ Header.blob_gas_used /= None
    /\ Header.parent_beacon_block_root /= None
    /\ Header.requests_hash = None

BlobGasOf(txs) == SeqSum([i \in 1..Len(txs) |->
                            IF txs[i].tx.blob_gas_used = None THEN 0
                            ELSE txs[i].tx.blob_gas_used[1]])

C7_Verbatim ==
    HasBlock =>
        /\ Header.number = block_env.number
        /\ Header.gas_limit = block_env.gas_limit
        /\ Header.beneficiary = block_env.beneficiary
        /\ Header.base_fee_per_gas = Some(block_env.basefee)
        /\ Header.timestamp = block_env.timestamp
        /\ Some(Header.mix_hash) = block_env.prevrandao

\* C7 amended: number, gas limit, beneficiary, base fee and timestamp are the
\* environment's; the mix hash is the environment's prev-randao when that is
\* set and the zero hash when it is not.
C7_VerbatimOrZero ==
    HasBlock =>
        /\ Header.number = block_env.number
        /\ Header.gas_limit = block_env.gas_limit
        /\ Header.beneficiary = block_env.beneficiary
        /\ Header.base_fee_per_gas = Some(block_env.basefee)
        /\ Header.timestamp = block_env.timestamp
        /\ block_env.prevrandao /= None =>
              Header.mix_hash = block_env.prevrandao[1]
        /\ block_env.prevrandao = None => Header.mix_hash = B256_ZERO

C7_Witness ==
    /\ HasBlock
    /\ block_env.prevrandao = None
    /\ Header.mix_hash = B256_ZERO
    /\ Header.beneficiary = block_env.beneficiary
    /\ Header.beneficiary /= parent.beneficiary

\* C8: two calls of next_env_attributes for the same parent return identical
\* environments, prev-randao included.
C8_Deterministic ==
    attrs /= None /\ prev_attrs /= None => attrs = prev_attrs

\* C9: a successful local_pending_block returns the block and the receipts of
\* the one hash its first read observed, also when the store advanced during
\* the call, and no step of the call changes the store or the pending slot.
C9_OneBlock ==
    /\ [](lpb_pc = "done" /\ lpb_result[1].ok =>
            /\ lpb_result[1].value /= None
            /\ lpb_result[1].value[1].block.hash = SeenHash
            /\ lpb_result[1].value[1].receipts.of_block = SeenHash)
    /\ [][lpb_vars' /= lpb_vars =>
            UNCHANGED <<latest, blocks, receipts, pending_block>>]_vars

C9_Witness ==
    /\ lpb_pc = "done"
    /\ lpb_result[1].ok
    /\ latest[1].hash > SeenHash
    /\ receipts[latest[1].hash] /= None
    /\ pending_block /= None
    /\ lpb_result[1].value[1].receipts.of_block = SeenHash

\* C10: every assembled block has the empty-ommers hash, no ommers, the
\* post-merge nonce, difficulty zero and empty extra data, although the derived
\* environment carries the parent's extra data.
C10_FixedFields ==
    HasBlock =>
        /\ Header.ommers_hash = EMPTY_OMMER_ROOT_HASH
        /\ Body.ommers = <<>>
        /\ Header.nonce = BEACON_NONCE
        /\ Header.difficulty = 0
        /\ Header.extra_data = <<>>
        /\ attrs[1].value.extra_data = parent.extra_data

C10_Witness ==
    /\ HasBlock
    /\ parent.extra_data /= <<>>
    /\ attrs[1].value.extra_data /= <<>>
    /\ Header.extra_data = <<>>

====
